---------------------------- MODULE Spec2Model ----------------------------
(***************************************************************************)
(* Model of the Contract Intelligence Q&A evaluation harness               *)
(* (eval/run_eval.py) and of the field extraction contract exercised by    *)
(* test/test_extraction.py.                                                *)
(*                                                                         *)
(* Text is a sequence of one-character strings.  Scores are exact          *)
(* fixed-point numbers: the integer One stands for the float 1.0.          *)
(***************************************************************************)
EXTENDS Integers, Sequences, FiniteSets, TLC

VARIABLES
    pc,         \* position of run_evaluation
    health,     \* <<h>>: outcome of the /healthz probe, <<>> before the probe
    fixtures,   \* the test files found on disk by upload_test_documents
    ingest,     \* outcome of POST /ingest, <<>> when no request was made
    doc_ids,    \* value returned by upload_test_documents
    eval_set,   \* value returned by load_eval_set
    asked,      \* outcomes of the POST /ask requests issued so far, in order
    response,   \* <<r>>: response of the /ask request being scored, else <<>>
    results,    \* the list `results` of run_evaluation
    summary,    \* <<s>>: what the EVALUATION SUMMARY block printed, else <<>>
    artifact,   \* <<a>>: content of eval/eval_results.json, else <<>>
    one_line,   \* <<l>>: the ONE-LINE SUMMARY printed, else <<>>
    exit_code,  \* process exit status, -1 while running
    q_in,       \* evaluate_question alone: the question
    r_in,       \* evaluate_question alone: the response of /ask
    r_out,      \* evaluate_question alone: <<result>>, <<>> before the call
    text,       \* extract_fields alone: the input text
    fields      \* extract_fields alone: <<outcome>>, <<>> before the call

vars == <<pc, health, fixtures, ingest, doc_ids, eval_set, asked, response,
          results, summary, artifact, one_line, exit_code,
          q_in, r_in, r_out, text, fields>>

runVars == <<pc, health, fixtures, ingest, doc_ids, eval_set, asked, response,
             results, summary, artifact, one_line, exit_code>>
scoreVars == <<q_in, r_in, r_out>>
extractVars == <<text, fields>>

---------------------------------------------------------------------------
(* Bounds of the model *)

MaxKeywords == 3
MaxQuestions == 3
MaxCitations == 1
MaxTextLen == 3

---------------------------------------------------------------------------
(* Fixed-point scores *)

RECURSIVE Fact(_)
Fact(n) == IF n <= 1 THEN 1 ELSE n * Fact(n - 1)

\* The float 1.0.  Every quotient the harness takes of a score (by a number
\* of keywords, by 2, by 10, by a number of results) is exact in these units.
One == 20 * Fact(MaxKeywords) * Fact(MaxQuestions)

Min(a, b) == IF a <= b THEN a ELSE b

---------------------------------------------------------------------------
(* Text *)

Uppers == <<"A","B","C","D","E","F","G","H","I","J","K","L","M",
            "N","O","P","Q","R","S","T","U","V","W","X","Y","Z">>
Lowers == <<"a","b","c","d","e","f","g","h","i","j","k","l","m",
            "n","o","p","q","r","s","t","u","v","w","x","y","z">>

\* str.lower() on one character
lower_char(c) ==
    IF \E i \in 1..Len(Uppers) : Uppers[i] = c
    THEN Lowers[CHOOSE i \in 1..Len(Uppers) : Uppers[i] = c]
    ELSE c

\* str.lower()
lower(s) == [i \in 1..Len(s) |-> lower_char(s[i])]

\* the Python test `needle in hay` on strings
contains(hay, needle) ==
    \E i \in 0..(Len(hay) - Len(needle)) :
        SubSeq(hay, i + 1, i + Len(needle)) = needle

California == <<"C","a","l","i","f","o","r","n","i","a">>
TwoYears == <<"t","w","o"," ","y","e","a","r","s">>
CALIFORNIA == <<"C","A","L","I","F","O","R","N","I","A">>
TwoYearsCap == <<"T","w","o"," ","Y","e","a","r","s">>
NotFoundCap == <<" ","N","o","t"," ","F","o","u","n","d">>
CannotFind == <<" ","c","a","n","n","o","t"," ","f","i","n","d">>
NoInformation == <<" ","n","o"," ","i","n","f","o","r","m","a","t","i","o","n">>
NotInTheDocument == <<" ","n","o","t"," ","i","n"," ","t","h","e"," ",
                      "d","o","c","u","m","e","n","t">>
TheState == <<" ","t","h","e"," ","s","t","a","t","e">>

negative_phrases ==
    << <<"n","o","t"," ","f","o","u","n","d">>,
       <<"c","a","n","n","o","t"," ","f","i","n","d">>,
       <<"n","o"," ","i","n","f","o","r","m","a","t","i","o","n">>,
       <<"n","o","t"," ","i","n"," ","t","h","e"," ","d","o","c","u","m","e","n","t">> >>

---------------------------------------------------------------------------
(* evaluate_question, after its POST /ask request has returned `resp` *)

HTTP_OK == 200
ErrorStatuses == {404, 500}

RECURSIVE match_keywords(_, _)
match_keywords(keywords, answer) ==
    IF keywords = <<>> THEN <<>>
    ELSE LET rest == match_keywords(Tail(keywords), answer)
         IN  IF contains(answer, lower(Head(keywords)))
             THEN <<Head(keywords)>> \o rest
             ELSE rest

keyword_score(question, matched_keywords) ==
    IF Len(question.expected_keywords) > 0
    THEN (Len(matched_keywords) * One) \div Len(question.expected_keywords)
    ELSE 0

has_negative(answer) ==
    \E p \in 1..Len(negative_phrases) : contains(answer, negative_phrases[p])

penalised(score, answer) == IF has_negative(answer) THEN score \div 2 ELSE score

with_bonus(score, has_citations) ==
    IF has_citations THEN score + One \div 10 ELSE score

\* final_score with the citation bonus added before the penalty is applied
final_score_bonus_first(question, answer, matched_keywords, has_citations) ==
    Min(penalised(with_bonus(keyword_score(question, matched_keywords),
                             has_citations), answer),
        One)

\* final_score without the closing min(score, 1.0)
final_score_unclamped(question, answer, matched_keywords, has_citations) ==
    with_bonus(penalised(keyword_score(question, matched_keywords), answer),
               has_citations)

final_score(question, answer, matched_keywords, has_citations) ==
    Min(with_bonus(penalised(keyword_score(question, matched_keywords), answer),
                   has_citations),
        One)

\* error_result with the citation bonus applied to the failed response
error_result_with_bonus(question, resp) ==
    [question_id |-> question.id,
     score       |-> with_bonus(0, resp.citations > 0),
     reason      |-> <<"API error: ", resp.status_code>>]

\* error_result without its reason
error_result_no_reason(question, resp) ==
    [question_id |-> question.id,
     score       |-> 0]

error_result(question, resp) ==
    [question_id |-> question.id,
     score       |-> 0,
     reason      |-> <<"API error: ", resp.status_code>>]

scored_result(question, resp) ==
    LET answer == lower(resp.answer)
        matched_keywords == match_keywords(question.expected_keywords, answer)
        has_citations == resp.citations > 0
    IN  [question_id      |-> question.id,
         question         |-> question.question,
         answer           |-> resp.answer,
         score            |-> final_score(question, answer, matched_keywords,
                                          has_citations),
         matched_keywords |-> matched_keywords,
         has_citations    |-> has_citations]

evaluate_question(question, resp) ==
    IF resp.status_code # HTTP_OK
    THEN error_result(question, resp)
    ELSE scored_result(question, resp)

---------------------------------------------------------------------------
(* evaluate_question on its own: every question and response in the bounds *)

RECURSIVE SeqsUpTo(_, _)
SeqsUpTo(S, n) ==
    IF n = 0 THEN {<<>>}
    ELSE LET shorter == SeqsUpTo(S, n - 1)
         IN  shorter \cup {Append(s, x) : s \in shorter, x \in S}

KeywordPool == {California, TwoYears}
Fragments == {California, CALIFORNIA, TwoYearsCap, NotFoundCap, CannotFind,
              NoInformation, NotInTheDocument, TheState}

ScoreQuestions ==
    {[id |-> 1, question |-> "q", expected_keywords |-> ks] :
        ks \in SeqsUpTo(KeywordPool, MaxKeywords)}

\* the answers of /ask: one fragment, or two in a row, or nothing
ScoreAnswers == {a \o b : a, b \in Fragments \cup {<<>>}}

ScoreResponses ==
    {[status_code |-> HTTP_OK, answer |-> a, citations |-> c] :
        a \in ScoreAnswers, c \in 0..MaxCitations}
    \cup {[status_code |-> s, answer |-> a, citations |-> c] :
        s \in ErrorStatuses, a \in {<<>>, California}, c \in 0..MaxCitations}

RunIdle ==
    /\ pc = "idle" /\ health = <<>> /\ fixtures = {} /\ ingest = <<>>
    /\ doc_ids = <<>> /\ eval_set = <<>> /\ asked = <<>> /\ response = <<>>
    /\ results = <<>> /\ summary = <<>> /\ artifact = <<>> /\ one_line = <<>>
    /\ exit_code = -1

ScoreIdle == q_in = <<>> /\ r_in = <<>> /\ r_out = <<>>

ExtractIdle == text = <<>> /\ fields = <<>>

InitScore ==
    /\ RunIdle /\ ExtractIdle
    /\ q_in \in {<<q>> : q \in ScoreQuestions}
    /\ r_in \in {<<r>> : r \in ScoreResponses}
    /\ r_out = <<>>

Evaluate ==
    /\ r_out = <<>>
    /\ r_out' = <<evaluate_question(q_in[1], r_in[1])>>
    /\ UNCHANGED <<q_in, r_in, runVars, extractVars>>

NextScore == Evaluate

SpecScore == InitScore /\ [][NextScore]_vars

---------------------------------------------------------------------------
(* run_evaluation *)

NoException == "none"

\* requests.get(/healthz, timeout=5): a response, or an exception raised
HealthOutcomes ==
    {[exc |-> NoException, status_code |-> s] : s \in {HTTP_OK, 503}}
    \cup {[exc |-> e, status_code |-> 0] : e \in {"ConnectionError", "ReadTimeout"}}

test_files == {"uploads/Sample NDA.pdf", "uploads/NDA.pdf"}

\* requests.post(/ingest): a response with its document_ids, or an exception
IngestOutcomes ==
    {[exc |-> NoException, status_code |-> s, document_ids |-> d] :
        s \in {HTTP_OK, 500}, d \in {<<>>, <<"doc1">>}}
    \cup {[exc |-> "ConnectionError", status_code |-> 0, document_ids |-> <<>>]}

QuestionBank ==
    {[id |-> 1, question |-> "q1", expected_keywords |-> <<California, TwoYears>>],
     [id |-> 2, question |-> "q2", expected_keywords |-> <<>>]}

EvalSets == SeqsUpTo(QuestionBank, MaxQuestions)

RunAnswers == {California, CALIFORNIA \o TwoYearsCap, California \o NotFoundCap}

\* requests.post(/ask): a response, or an exception raised
AskOutcomes ==
    {[exc |-> NoException, status_code |-> HTTP_OK, answer |-> a, citations |-> c] :
        a \in RunAnswers, c \in 0..MaxCitations}
    \cup {[exc |-> NoException, status_code |-> 500,
           answer |-> California \o NotFoundCap, citations |-> c] :
        c \in 0..MaxCitations}
    \cup {[exc |-> "ConnectionError", status_code |-> 0, answer |-> <<>>,
           citations |-> 0]}

\* upload_test_documents without its test of the status code
upload_test_documents_any_status(present, out) ==
    IF present = {} THEN <<>> ELSE out.document_ids

\* the value upload_test_documents returns when its request does not raise
upload_test_documents(present, out) ==
    IF present = {} THEN <<>>
    ELSE IF out.status_code = HTTP_OK THEN out.document_ids
    ELSE <<>>

RECURSIVE sum_scores(_)
sum_scores(rs) == IF rs = <<>> THEN 0 ELSE Head(rs).score + sum_scores(Tail(rs))

RECURSIVE count_passed(_)
count_passed(rs) ==
    IF rs = <<>> THEN 0
    ELSE (IF 10 * Head(rs).score >= 7 * One THEN 1 ELSE 0) + count_passed(Tail(rs))

\* average_score taken over the answered questions only
average_score_answered_only(rs) ==
    LET answered == Cardinality({i \in 1..Len(rs) : "reason" \notin DOMAIN rs[i]})
    IN  sum_scores(rs) \div (IF answered = 0 THEN 1 ELSE answered)

average_score(rs) == sum_scores(rs) \div Len(rs)

\* grade_of with exclusive thresholds
grade_of_exclusive(avg_score) ==
    IF 10 * avg_score > 8 * One THEN "EXCELLENT"
    ELSE IF 10 * avg_score > 7 * One THEN "GOOD"
    ELSE IF 10 * avg_score > 5 * One THEN "FAIR"
    ELSE "NEEDS IMPROVEMENT"

grade_of(avg_score) ==
    IF 10 * avg_score >= 8 * One THEN "EXCELLENT"
    ELSE IF 10 * avg_score >= 7 * One THEN "GOOD"
    ELSE IF 10 * avg_score >= 5 * One THEN "FAIR"
    ELSE "NEEDS IMPROVEMENT"

eval_results(rs) ==
    [average_score   |-> average_score(rs),
     total_questions |-> Len(rs),
     pass_rate       |-> (count_passed(rs) * One) \div Len(rs),
     results         |-> rs]

\* append_result putting the newest result first
append_result_front(rs, result) == <<result>> \o rs

append_result(rs, result) == Append(rs, result)

Init ==
    /\ pc = "start" /\ health = <<>> /\ fixtures = {} /\ ingest = <<>>
    /\ doc_ids = <<>> /\ eval_set = <<>> /\ asked = <<>> /\ response = <<>>
    /\ results = <<>> /\ summary = <<>> /\ artifact = <<>> /\ one_line = <<>>
    /\ exit_code = -1
    /\ ScoreIdle /\ ExtractIdle

\* lines 122-131: the probe; anything but a 200 ends the process with status 1
\* (sys.exit(1), or the traceback of an exception the except clause misses)
HealthCheck ==
    /\ pc = "start"
    /\ \E h \in HealthOutcomes :
        /\ health' = <<h>>
        /\ IF h.exc = NoException /\ h.status_code = HTTP_OK
           THEN pc' = "upload" /\ exit_code' = exit_code
           ELSE pc' = "exited" /\ exit_code' = 1
    /\ UNCHANGED <<fixtures, ingest, doc_ids, eval_set, asked, response, results,
                   summary, artifact, one_line, scoreVars, extractVars>>

\* lines 134-137 with upload_test_documents
Upload ==
    /\ pc = "upload"
    /\ \E present \in SUBSET test_files :
        /\ fixtures' = present
        /\ IF present = {}
           THEN /\ ingest' = <<>>
                /\ doc_ids' = <<>>
                /\ pc' = "exited" /\ exit_code' = 1
           ELSE \E out \in IngestOutcomes :
                /\ ingest' = <<out>>
                /\ IF out.exc # NoException
                   THEN /\ doc_ids' = <<>>
                        /\ pc' = "exited" /\ exit_code' = 1
                   ELSE /\ doc_ids' = upload_test_documents(present, out)
                        /\ IF doc_ids' = <<>>
                           THEN pc' = "exited" /\ exit_code' = 1
                           ELSE pc' = "load" /\ exit_code' = exit_code
    /\ UNCHANGED <<health, eval_set, asked, response, results, summary, artifact,
                   one_line, scoreVars, extractVars>>

\* lines 140-144
LoadEvalSet ==
    /\ pc = "load"
    /\ \E qs \in EvalSets :
        /\ eval_set' = qs
        /\ pc' = IF qs = <<>> THEN "summarize" ELSE "ask"
    /\ results' = <<>>
    /\ UNCHANGED <<health, fixtures, ingest, doc_ids, asked, response, summary,
                   artifact, one_line, exit_code, scoreVars, extractVars>>

\* lines 56-59: the request of evaluate_question for the next question; an
\* exception it raises is caught nowhere and ends the process with status 1
Ask ==
    /\ pc = "ask"
    /\ LET question == eval_set[Len(results) + 1]
       IN  \E o \in AskOutcomes :
            /\ asked' = Append(asked, [question_id |-> question.id,
                                       exc |-> o.exc,
                                       status_code |-> o.status_code])
            /\ IF o.exc # NoException
               THEN /\ response' = <<>>
                    /\ pc' = "exited" /\ exit_code' = 1
               ELSE /\ response' = <<o>>
                    /\ pc' = "record" /\ exit_code' = exit_code
    /\ UNCHANGED <<health, fixtures, ingest, doc_ids, eval_set, results, summary,
                   artifact, one_line, scoreVars, extractVars>>

\* lines 61-113 and 147: the rest of evaluate_question, and the append
Record ==
    /\ pc = "record"
    /\ LET question == eval_set[Len(results) + 1]
       IN  results' = append_result(results, evaluate_question(question, response[1]))
    /\ response' = <<>>
    /\ pc' = IF Len(results') < Len(eval_set) THEN "ask" ELSE "summarize"
    /\ UNCHANGED <<health, fixtures, ingest, doc_ids, eval_set, asked, summary,
                   artifact, one_line, exit_code, scoreVars, extractVars>>

\* lines 150-188: with no results the division of line 150 raises
\* ZeroDivisionError before anything is printed or written
Summarize ==
    /\ pc = "summarize"
    /\ IF Len(results) = 0
       THEN /\ pc' = "exited" /\ exit_code' = 1
            /\ UNCHANGED <<summary, artifact, one_line>>
       ELSE LET avg_score == average_score(results)
                grade == grade_of(avg_score)
            IN  /\ summary' = <<[total |-> Len(results),
                                 avg_score |-> avg_score,
                                 passed |-> count_passed(results),
                                 grade |-> grade]>>
                /\ artifact' = <<eval_results(results)>>
                /\ one_line' = <<[avg_score |-> avg_score,
                                  passed |-> count_passed(results),
                                  total |-> Len(results),
                                  grade |-> grade]>>
                /\ pc' = "exited" /\ exit_code' = 0
    /\ UNCHANGED <<health, fixtures, ingest, doc_ids, eval_set, asked, response,
                   results, scoreVars, extractVars>>

Next ==
    \/ HealthCheck
    \/ Upload
    \/ LoadEvalSet
    \/ Ask
    \/ Record
    \/ Summarize

Spec == Init /\ [][Next]_vars

---------------------------------------------------------------------------
(* extract_fields.  ExtractionService is not among the sources; this is   *)
(* the engine of section 4.1 of the specification, over text read as a    *)
(* sequence of tokens.  An optional field is <<>> (None) or <<value>>.    *)

Tokens == {"between", "and", "Acme", "Tech", "dated", "01/15/2024",
           "2024-01-15", "2024-13-45", "governed", "California",
           "liability", "$100,000", "Signed"}

Names == {"Acme", "Tech", "California"}

\* the length threshold, and what truncation keeps of each end
MAX_TOKENS == 2
HEAD_KEEP == 1
TAIL_KEEP == 1

truncate(t) ==
    IF Len(t) <= MAX_TOKENS THEN t
    ELSE SubSeq(t, 1, HEAD_KEEP) \o SubSeq(t, Len(t) - TAIL_KEEP + 1, Len(t))

Found(v) == [err |-> FALSE, val |-> v]
Failed == [err |-> TRUE, val |-> <<>>]

RECURSIVE dedupe(_)
dedupe(xs) ==
    IF xs = <<>> THEN <<>>
    ELSE LET init == dedupe(SubSeq(xs, 1, Len(xs) - 1))
             last == xs[Len(xs)]
         IN  IF \E i \in 1..Len(init) : init[i] = last THEN init
             ELSE Append(init, last)

RECURSIVE names_after(_, _, _)
\* the names that directly follow one of `markers` in t, from position i on
names_after(markers, t, i) ==
    IF i >= Len(t) THEN <<>>
    ELSE IF t[i] \in markers /\ t[i + 1] \in Names
         THEN <<t[i + 1]>> \o names_after(markers, t, i + 1)
         ELSE names_after(markers, t, i + 1)

extract_parties(t) == Found(dedupe(names_after({"between", "and"}, t, 1)))

\* one date format tried on one token: a date, no match, or a failed parse
\* of a token of the right shape
parse_slash(tok) ==
    IF tok = "01/15/2024" THEN Found(<<[year |-> 2024, month |-> 1, day |-> 15]>>)
    ELSE Found(<<>>)

parse_iso(tok) ==
    IF tok = "2024-01-15" THEN Found(<<[year |-> 2024, month |-> 1, day |-> 15]>>)
    ELSE IF tok = "2024-13-45" THEN Failed
    ELSE Found(<<>>)

parse_date(tok) ==
    LET slash == parse_slash(tok)
    IN  IF slash.err \/ slash.val # <<>> THEN slash ELSE parse_iso(tok)

extract_effective_date(t) ==
    IF \E i \in 1..(Len(t) - 1) : t[i] = "dated"
    THEN LET i == CHOOSE i \in 1..(Len(t) - 1) :
                    /\ t[i] = "dated"
                    /\ \A j \in 1..(i - 1) : t[j] # "dated"
         IN  parse_date(t[i + 1])
    ELSE Found(<<>>)

extract_governing_law(t) ==
    LET found == names_after({"governed"}, t, 1)
    IN  Found(IF found = <<>> THEN <<>> ELSE <<found[1]>>)

extract_liability_cap(t) ==
    IF \E i \in 1..(Len(t) - 1) : t[i] = "liability" /\ t[i + 1] = "$100,000"
    THEN Found(<<[amount |-> 100000, currency |-> "$"]>>)
    ELSE Found(<<>>)

extract_signatures(t) == Found(names_after({"Signed"}, t, 1))

\* the local handler around one field's extractor lets the error through
caught_nothing(r, absent) == r

\* the local handler around one field's extractor: an error is "not found"
caught(r, absent) == IF r.err THEN Found(absent) ELSE r

extract_fields(txt) ==
    LET t == truncate(txt)
        parties == caught(extract_parties(t), <<>>)
        effective_date == caught(extract_effective_date(t), <<>>)
        governing_law == caught(extract_governing_law(t), <<>>)
        liability_cap == caught(extract_liability_cap(t), <<>>)
        signatures == caught(extract_signatures(t), <<>>)
    IN  IF parties.err \/ effective_date.err \/ governing_law.err
           \/ liability_cap.err \/ signatures.err
        THEN [raised |-> TRUE]
        ELSE [raised         |-> FALSE,
              parties        |-> parties.val,
              effective_date |-> effective_date.val,
              governing_law  |-> governing_law.val,
              liability_cap  |-> liability_cap.val,
              signatures     |-> signatures.val]

InitExtract ==
    /\ RunIdle /\ ScoreIdle
    /\ text \in SeqsUpTo(Tokens, MaxTextLen)
    /\ fields = <<>>

Extract ==
    /\ fields = <<>>
    /\ fields' = <<extract_fields(text)>>
    /\ UNCHANGED <<text, runVars, scoreVars>>

NextExtract == Extract

SpecExtract == InitExtract /\ [][NextExtract]_vars

\* C10: extract_fields never raises: for every text, the empty one, one with
\* missing fields and one long enough to be truncated included, it returns a
\* well-formed ExtractedFields whose parties is a list; for the empty text
\* parties is empty and every optional field is None.
C10_ExtractTotal ==
    fields # <<>> =>
        /\ ~fields[1].raised
        /\ DOMAIN fields[1] = {"raised", "parties", "effective_date",
                               "governing_law", "liability_cap", "signatures"}
        /\ DOMAIN fields[1].parties = 1..Len(fields[1].parties)
        /\ \A i \in 1..Len(fields[1].parties) : fields[1].parties[i] \in Names
        /\ Len(fields[1].effective_date) <= 1
        /\ Len(fields[1].governing_law) <= 1
        /\ Len(fields[1].liability_cap) <= 1
        /\ text = <<>> =>
            /\ fields[1].parties = <<>>
            /\ fields[1].effective_date = <<>>
            /\ fields[1].governing_law = <<>>
            /\ fields[1].liability_cap = <<>>

\* C10 witness: a text over the threshold whose date label is followed, once
\* truncated, by a date that does not parse: fields are returned, no date
C10_Witness ==
    /\ fields # <<>>
    /\ Len(text) > MAX_TOKENS
    /\ text[1] = "dated"
    /\ text[Len(text)] = "2024-13-45"
    /\ ~fields[1].raised
    /\ fields[1].effective_date = <<>>
    /\ fields[1].parties = <<>>

---------------------------------------------------------------------------
(* Properties of run_evaluation *)

Healthy ==
    /\ health # <<>>
    /\ health[1].exc = NoException
    /\ health[1].status_code = HTTP_OK

Uploaded ==
    /\ fixtures # {}
    /\ ingest # <<>>
    /\ ingest[1].exc = NoException
    /\ ingest[1].status_code = HTTP_OK
    /\ Len(ingest[1].document_ids) >= 1

UploadTried == pc \notin {"start", "upload"}

\* C1: no /ask request is issued, no artifact is written and no one-line
\* summary is printed unless the probe returned 200 and the upload returned
\* at least one document id; a failed probe, and an upload with no fixture
\* file, a non-200 response or an empty document_ids list, end the run with a
\* non-zero exit.
C1_SetupGate ==
    /\ (asked # <<>> \/ artifact # <<>> \/ one_line # <<>>) => (Healthy /\ Uploaded)
    /\ (health # <<>> /\ ~Healthy) => (pc = "exited" /\ exit_code >= 1)
    /\ (Healthy /\ UploadTried /\ ~Uploaded) => (pc = "exited" /\ exit_code >= 1)
    /\ (Healthy /\ UploadTried /\ ~Uploaded) => doc_ids = <<>>

\* C1 witness: a healthy service whose /ingest answered 200 with no document
\* ids: the run has ended with exit status 1 and asked nothing
C1_Witness ==
    /\ Healthy
    /\ fixtures # {}
    /\ ingest # <<>>
    /\ ingest[1].status_code = HTTP_OK
    /\ ingest[1].document_ids = <<>>
    /\ pc = "exited"
    /\ exit_code = 1
    /\ asked = <<>>
    /\ artifact = <<>>

\* C3: once documents are uploaded the run is never aborted: whatever the
\* question set and the outcomes of the /ask requests, it ends normally with
\* one result per question and the artifact written.
C3_NeverAbortedAfterSetup ==
    (pc = "exited" /\ (doc_ids # <<>> \/ asked # <<>>)) =>
        /\ exit_code = 0
        /\ artifact # <<>>
        /\ Len(results) = Len(eval_set)

\* C4: a question whose /ask response is not a 200 gets a result with score
\* 0.0 and a reason, without penalty or bonus; the result is appended and the
\* run goes on to the next question.
C4_ErrorResponseRecorded ==
    /\ \A i \in 1..Len(results) :
        asked[i].status_code # HTTP_OK =>
            /\ results[i].score = 0
            /\ "reason" \in DOMAIN results[i]
            /\ results[i].question_id = eval_set[i].id
    /\ pc # "record" =>
        Len(results) = Cardinality({i \in 1..Len(asked) : asked[i].exc = NoException})
    /\ ( /\ Len(results) >= 1
         /\ Len(asked) = Len(results)
         /\ asked[Len(asked)].status_code # HTTP_OK ) =>
            IF Len(results) < Len(eval_set)
            THEN pc = "ask"
            ELSE pc = "summarize" \/ (pc = "exited" /\ artifact # <<>>)

\* C4 witness: the first question failed with a 500 carrying a citation, and
\* a later question has been evaluated
C4_Witness ==
    /\ Len(results) >= 2
    /\ asked[1].status_code = 500
    /\ results[1].score = 0
    /\ asked[2].status_code = HTTP_OK
    /\ results[2].score > 0

RECURSIVE SumTo(_, _)
SumTo(rs, k) == IF k = 0 THEN 0 ELSE rs[k].score + SumTo(rs, k - 1)

\* C6: in the artifact over N results (one per request, failed ones
\* included), average_score is the sum of the scores divided by N,
\* total_questions is N, and pass_rate is the number of scores >= 0.7
\* divided by N.
C6_SummaryAggregates ==
    artifact # <<>> =>
        LET a == artifact[1]
            N == Len(asked)
        IN  /\ N >= 1
            /\ Len(a.results) = N
            /\ a.total_questions = N
            /\ a.average_score * N = SumTo(a.results, N)
            /\ a.pass_rate * N =
                 One * Cardinality({i \in 1..N : 10 * a.results[i].score >= 7 * One})

\* C6 witness: an artifact over a failed request and a passing answer
C6_Witness ==
    /\ artifact # <<>>
    /\ Len(artifact[1].results) = 2
    /\ asked[1].status_code = 500
    /\ artifact[1].results[2].score = One
    /\ 2 * artifact[1].average_score = One
    /\ 2 * artifact[1].pass_rate = One

\* C7: the results follow the question set: results[i].question_id is the id
\* of the i-th question, a finished run has one result per question, and the
\* request for a question is issued only once every earlier result is in.
C7_OrderedSequential ==
    /\ Len(results) <= Len(eval_set)
    /\ \A i \in 1..Len(results) : results[i].question_id = eval_set[i].id
    /\ Len(asked) \in {Len(results), Len(results) + 1}
    /\ \A i \in 1..Len(asked) : asked[i].question_id = eval_set[i].id
    /\ pc = "ask" => Len(asked) = Len(results)
    /\ artifact # <<>> =>
        /\ Len(artifact[1].results) = Len(eval_set)
        /\ \A i \in 1..Len(eval_set) :
            artifact[1].results[i].question_id = eval_set[i].id

\* C7 witness: a finished run over a question set whose first two ids differ
C7_Witness ==
    /\ artifact # <<>>
    /\ Len(eval_set) >= 2
    /\ eval_set[1].id # eval_set[2].id
    /\ artifact[1].results[2].question_id = eval_set[2].id

EvalResultFields ==
    {"question_id", "question", "answer", "score", "matched_keywords",
     "has_citations"}

Grades == {"EXCELLENT", "GOOD", "FAIR", "NEEDS IMPROVEMENT"}

\* C9: a completed run has exactly one grade, decided by average_score alone:
\* EXCELLENT from 0.8, GOOD from 0.7, FAIR from 0.5, else NEEDS IMPROVEMENT.
C9_GradeBands ==
    /\ (pc = "exited" /\ exit_code = 0) => (summary # <<>> /\ artifact # <<>>)
    /\ summary # <<>> =>
        LET avg == artifact[1].average_score
            g == summary[1].grade
        IN  /\ g \in Grades
            /\ one_line[1].grade = g
            /\ (g = "EXCELLENT") <=> (10 * avg >= 8 * One)
            /\ (g = "GOOD") <=> (10 * avg >= 7 * One /\ 10 * avg < 8 * One)
            /\ (g = "FAIR") <=> (10 * avg >= 5 * One /\ 10 * avg < 7 * One)
            /\ (g = "NEEDS IMPROVEMENT") <=> (10 * avg < 5 * One)

\* C9 witness: a run whose average is exactly 0.8, graded EXCELLENT
C9_Witness ==
    /\ summary # <<>>
    /\ 10 * artifact[1].average_score = 8 * One
    /\ summary[1].grade = "EXCELLENT"

---------------------------------------------------------------------------
(* Properties of evaluate_question *)

\* `k` occurs in `a` as a substring, letter case ignored
OccursIgnoringCase(k, a) ==
    \E j \in 1..(Len(a) + 1) :
        \A p \in 1..Len(k) :
            /\ j + p - 1 <= Len(a)
            /\ lower_char(a[j + p - 1]) = lower_char(k[p])

NumMatched(keywords, a) ==
    Cardinality({i \in 1..Len(keywords) : OccursIgnoringCase(keywords[i], a)})

SaysNotFound(a) ==
    \E p \in 1..Len(negative_phrases) : OccursIgnoringCase(negative_phrases[p], a)

\* C2: for a status-200 response, with n expected keywords of which m occur
\* case-insensitively in the answer, the score is m/n (0 when n = 0), halved
\* when the answer holds a negative phrase, and only then raised by 0.1 when
\* there is a citation (the result capped at 1.0).  With the keywords
\* ["California", "two years"] and only "California" matched this gives 0.5,
\* 0.6 with a citation and 0.35 with a citation and "not found".
C2_Scoring ==
    (r_out # <<>> /\ r_in[1].status_code = HTTP_OK) =>
        LET ks == q_in[1].expected_keywords
            a == r_in[1].answer
            n == Len(ks)
            m == NumMatched(ks, a)
            cited == r_in[1].citations >= 1
            neg == SaysNotFound(a)
            s == r_out[1].score
        IN  /\ n > 0 => (m * One) % n = 0
            /\ LET pre == IF n > 0 THEN (m * One) \div n ELSE 0
                   pen == IF neg THEN pre \div 2 ELSE pre
               IN  /\ neg => 2 * pen = pre
                   /\ s = Min(pen + (IF cited THEN One \div 10 ELSE 0), One)
            /\ (ks = <<California, TwoYears>> /\ m = 1) =>
                   /\ (~neg /\ ~cited) => 100 * s = 50 * One
                   /\ (~neg /\ cited) => 100 * s = 60 * One
                   /\ (neg /\ cited) => 100 * s = 35 * One

\* C2 witness: ["California", "two years"], the answer "California Not Found"
\* with a citation, scored
C2_Witness ==
    /\ r_out # <<>>
    /\ r_in[1].status_code = HTTP_OK
    /\ q_in[1].expected_keywords = <<California, TwoYears>>
    /\ r_in[1].answer = California \o NotFoundCap
    /\ r_in[1].citations = 1
    /\ 100 * r_out[1].score = 35 * One

\* C5: every result of evaluate_question has 0.0 <= score <= 1.0; a full
\* keyword match with a citation scores exactly 1.0.
C5_ScoreInUnitInterval ==
    r_out # <<>> =>
        /\ 0 <= r_out[1].score
        /\ r_out[1].score <= One
        /\ ( /\ r_in[1].status_code = HTTP_OK
             /\ Len(q_in[1].expected_keywords) > 0
             /\ NumMatched(q_in[1].expected_keywords, r_in[1].answer)
                    = Len(q_in[1].expected_keywords)
             /\ ~SaysNotFound(r_in[1].answer)
             /\ r_in[1].citations >= 1 ) => r_out[1].score = One

\* C5 witness: all keywords matched, a citation present, the score is 1.0
C5_Witness ==
    /\ r_out # <<>>
    /\ r_in[1].status_code = HTTP_OK
    /\ q_in[1].expected_keywords = <<California, TwoYears>>
    /\ r_in[1].answer = CALIFORNIA \o TwoYearsCap
    /\ r_in[1].citations = 1
    /\ r_out[1].matched_keywords = <<California, TwoYears>>
    /\ r_out[1].score = One

=============================================================================
